---- MODULE Spec2Model ----
(***************************************************************************)
(* A model of try_main_code.py: the metadata CSV (save_metadata,           *)
(* load_metadata, delete_item), the Cloudinary upload helper, the Streamlit*)
(* handlers that call them, and get_outfit_suggestions (wardrobe           *)
(* serialization and defensive parsing of the completion text).            *)
(*                                                                         *)
(* A Python string is modelled as a sequence of pieces.  Every character   *)
(* the code looks at (a delimiter, a quote, a bracket, a dot, a digit, a   *)
(* white space) is a piece of its own; a run of other characters that the  *)
(* code only copies ("wardrobe", "Blue", "json") is written as one piece.  *)
(* CSV writing and reading, type inference, splitting, the regular         *)
(* expression and json.loads are computed piece by piece.                  *)
(***************************************************************************)
EXTENDS Integers, Sequences, FiniteSets, TLC

VARIABLES file, assets, snapshot, last

vars == <<file, assets, snapshot, last>>

-----------------------------------------------------------------------------
(* Bounds of the model.                                                    *)

\* Most rows the metadata file holds before uploads are no longer offered.
MaxRows == 2

\* Longest generated completion text (every text over GenAlphabet up to it).
MaxGenLen == 3

-----------------------------------------------------------------------------
(* Python string helpers over sequences of characters.                     *)

Range(s) == {s[i] : i \in DOMAIN s}

\* str.isspace for the characters the model uses; also regex \s and the
\* whitespace json.loads skips.
IsWs(c) == c \in {" ", "\n", "\t", "\r"}

IsDigit(c) == c \in {"0", "1", "2", "3", "4", "5", "6", "7", "8", "9"}

\* A sequence given as a function, with its elements computed once.
Evaluated(seq) == seq \o <<>>

\* s[i:] and s[i:j] with 1-based inclusive positions.
Drop(s, n) == SubSeq(s, n + 1, Len(s))

Take(s, n) == SubSeq(s, 1, n)

\* Whether sub occurs in s at position i.
OccursAt(s, sub, i) ==
    /\ i >= 1
    /\ i + Len(sub) - 1 <= Len(s)
    /\ SubSeq(s, i, i + Len(sub) - 1) = sub

\* str.find: the lowest position >= from where sub occurs, 0 when none.
Find(s, sub, from) ==
    LET hits == {i \in from..Len(s) : OccursAt(s, sub, i)}
    IN  IF hits = {} THEN 0 ELSE CHOOSE i \in hits : \A j \in hits : i <= j

\* sub in s
Contains(s, sub) == Find(s, sub, 1) # 0

\* str.startswith
StartsWith(s, pre) == OccursAt(s, pre, 1)

\* str.strip(): leading and trailing whitespace removed.
Strip(s) ==
    LET keep == {i \in DOMAIN s : ~IsWs(s[i])}
    IN  IF keep = {} THEN <<>>
        ELSE LET lo == CHOOSE i \in keep : \A j \in keep : i <= j
                 hi == CHOOSE i \in keep : \A j \in keep : i >= j
             IN  SubSeq(s, lo, hi)

\* str.split(sep): the pieces of s between the occurrences of sep.
RECURSIVE Split(_, _)
Split(s, sep) ==
    LET p == Find(s, sep, 1)
    IN  IF p = 0 THEN <<s>>
        ELSE <<Take(s, p - 1)>> \o Split(Drop(s, p + Len(sep) - 1), sep)

\* sep.join(parts)
RECURSIVE Join(_, _)
Join(sep, parts) ==
    IF parts = <<>> THEN <<>>
    ELSE IF Len(parts) = 1 THEN parts[1]
    ELSE parts[1] \o sep \o Join(sep, Tail(parts))

\* The decimal digits of a natural number (str(n)).
DigitChar(d) == <<"0", "1", "2", "3", "4", "5", "6", "7", "8", "9">>[d + 1]

RECURSIVE Digits(_)
Digits(n) == IF n < 10 THEN <<DigitChar(n)>>
             ELSE Digits(n \div 10) \o <<DigitChar(n % 10)>>

DigitVal(c) == CHOOSE d \in 0..9 : DigitChar(d) = c

\* int(text) for a text of digits (leading zeros are dropped by the value).
RECURSIVE IntValue(_)
IntValue(t) == IF t = <<>> THEN 0
               ELSE 10 * IntValue(Take(t, Len(t) - 1)) + DigitVal(t[Len(t)])

-----------------------------------------------------------------------------
(* Cell values of a DataFrame: a Python str, NaN, an int64 or a float64    *)
(* with an integral value (the only floats the modelled inputs produce).   *)

StrV(s) == [k |-> "str", s |-> s, n |-> 0]

NaN == [k |-> "nan", s |-> <<>>, n |-> 0]

IntV(n) == [k |-> "int", s |-> <<>>, n |-> n]

FloatV(n) == [k |-> "float", s |-> <<>>, n |-> n]

\* str(value), as an f-string and DataFrame.to_csv format it.
PyStr(v) ==
    CASE v.k = "str" -> v.s
      [] v.k = "nan" -> <<"nan">>
      [] v.k = "int" -> Digits(v.n)
      [] OTHER -> Digits(v.n) \o <<".", "0">>

REQUIRED_COLUMNS == <<"Image URL", "Public ID", "Category", "Color", "Season">>

\* pd.DataFrame(columns=REQUIRED_COLUMNS)
EmptyFrame == [columns |-> REQUIRED_COLUMNS, rows |-> <<>>]

-----------------------------------------------------------------------------
(* DataFrame.to_csv(index=False): one header line, one line per row; a     *)
(* NaN is written as the empty field, a field holding the delimiter, the   *)
(* quote character or a line break is quoted with its quotes doubled.      *)

ToCsvCell(v) == IF v.k = "nan" THEN <<>> ELSE PyStr(v)

NeedsQuote(t) == \E i \in DOMAIN t : t[i] \in {",", "\"", "\n", "\r"}

RECURSIVE DoubleQuotes(_)
DoubleQuotes(t) ==
    IF t = <<>> THEN <<>>
    ELSE (IF t[1] = "\"" THEN <<"\"", "\"">> ELSE <<t[1]>>) \o DoubleQuotes(Tail(t))

QuoteField(t) == IF NeedsQuote(t) THEN <<"\"">> \o DoubleQuotes(t) \o <<"\"">> ELSE t

WriteLine(cells) ==
    Join(<<",">>, Evaluated([j \in DOMAIN cells |-> QuoteField(cells[j])]))

to_csv(df) ==
    [exists |-> TRUE,
     header |-> df.columns,
     lines  |-> Evaluated([i \in DOMAIN df.rows |->
                   WriteLine(Evaluated([j \in DOMAIN df.columns |->
                                ToCsvCell(df.rows[i][df.columns[j]])]))])]

-----------------------------------------------------------------------------
(* pd.read_csv: the tokenizer splits each line into fields (a quoted field *)
(* may hold the delimiter, "" inside it is one quote), then every column   *)
(* is converted on its own: NA strings become NaN, a column whose other    *)
(* fields are all integers becomes int64 (float64 when it has a NaN), a    *)
(* column of numbers becomes float64, anything else stays str.             *)

RECURSIVE Tokenize(_, _, _, _, _)
Tokenize(line, i, inq, cur, acc) ==
    IF i > Len(line) THEN Append(acc, cur)
    ELSE LET c == line[i]
         IN  IF inq
             THEN IF c = "\""
                  THEN IF i < Len(line) /\ line[i + 1] = "\""
                       THEN Tokenize(line, i + 2, TRUE, Append(cur, "\""), acc)
                       ELSE Tokenize(line, i + 1, FALSE, cur, acc)
                  ELSE Tokenize(line, i + 1, TRUE, Append(cur, c), acc)
             ELSE IF c = ","
                  THEN Tokenize(line, i + 1, FALSE, <<>>, Append(acc, cur))
                  ELSE IF c = "\"" /\ cur = <<>>
                       THEN Tokenize(line, i + 1, TRUE, cur, acc)
                       ELSE Tokenize(line, i + 1, FALSE, Append(cur, c), acc)

ParseLine(line) == Tokenize(line, 1, FALSE, <<>>, <<>>)

\* The default NA strings of read_csv that the modelled alphabet can spell.
NAStrings ==
    { <<>>, <<"NA">>, <<"NaN">>, <<"nan">>, <<"null">>, <<"NULL">>, <<"None">>,
      <<"N", "/", "A">>, <<"n", "/", "a">> }

IsIntText(t) == t # <<>> /\ \A i \in DOMAIN t : IsDigit(t[i])

\* digits "." zeros: the float texts to_csv itself produces (7.0).
IsWholeFloatText(t) ==
    LET p == Find(t, <<".">>, 1)
    IN  /\ p > 1
        /\ p < Len(t)
        /\ IsIntText(Take(t, p - 1))
        /\ \A i \in (p + 1)..Len(t) : t[i] = "0"

WholePart(t) == IF IsIntText(t) THEN IntValue(t)
                ELSE IntValue(Take(t, Find(t, <<".">>, 1) - 1))

\* The dtype read_csv infers for a column from the texts of its fields.
ColumnKind(texts) ==
    LET rest == {i \in DOMAIN texts : texts[i] \notin NAStrings}
    IN  IF \A i \in rest : IsIntText(texts[i])
        THEN IF rest = DOMAIN texts THEN "int" ELSE "float"
        ELSE IF \A i \in rest : IsIntText(texts[i]) \/ IsWholeFloatText(texts[i])
             THEN "float"
             ELSE "str"

\* The values of one column, given its fields' texts.
ReadColumn(texts) ==
    LET kind == ColumnKind(texts)
    IN  Evaluated([i \in DOMAIN texts |->
           IF texts[i] \in NAStrings THEN NaN
           ELSE IF kind = "int" THEN IntV(IntValue(texts[i]))
           ELSE IF kind = "float" THEN FloatV(WholePart(texts[i]))
           ELSE StrV(texts[i])])

read_csv(f) ==
    LET fields == Evaluated([i \in DOMAIN f.lines |-> ParseLine(f.lines[i])])
        cols == Evaluated([j \in DOMAIN f.header |->
                   ReadColumn(Evaluated([i \in DOMAIN f.lines |-> fields[i][j]]))])
        at == [name \in Range(f.header) |->
                 CHOOSE j \in DOMAIN f.header : f.header[j] = name]
    IN  [columns |-> f.header,
         rows    |-> Evaluated([i \in DOMAIN f.lines |->
                        [name \in Range(f.header) |-> cols[at[name]][i]]])]

-----------------------------------------------------------------------------
(* Metadata helpers.                                                       *)

NoFile == [exists |-> FALSE, header |-> <<>>, lines |-> <<>>]

HasRequiredColumns(df) == \A j \in DOMAIN REQUIRED_COLUMNS :
                              REQUIRED_COLUMNS[j] \in Range(df.columns)

\* load_metadata()
load_metadata(f) ==
    IF f.exists
    THEN LET df == read_csv(f)
         IN  IF ~HasRequiredColumns(df) THEN EmptyFrame ELSE df
    ELSE EmptyFrame

\* The one-row frame save_metadata builds from its arguments.
NewEntry(image_url, public_id, category, color, season) ==
    [name \in Range(REQUIRED_COLUMNS) |->
       CASE name = "Image URL" -> StrV(image_url)
         [] name = "Public ID" -> StrV(public_id)
         [] name = "Category"  -> StrV(category)
         [] name = "Color"     -> StrV(color)
         [] OTHER              -> StrV(season)]

\* save_metadata(...): the file it leaves.
save_metadata(f, image_url, public_id, category, color, season) ==
    LET df == load_metadata(f)
        new_entry == NewEntry(image_url, public_id, category, color, season)
    IN  to_csv([columns |-> df.columns, rows |-> Append(df.rows, new_entry)])

\* index in df.index, for the RangeIndex 0..len-1 read_csv gives.
InIndex(df, index) == 0 <= index /\ index < Len(df.rows)

\* df.drop(index).reset_index(drop=True)
DropRow(df, index) ==
    [columns |-> df.columns,
     rows    |-> Evaluated([i \in 1..(Len(df.rows) - 1) |->
                    IF i <= index THEN df.rows[i] ELSE df.rows[i + 1]])]

-----------------------------------------------------------------------------
(* The asset store (Cloudinary), as the calls of this program use it.      *)

Folder == <<"wardrobe">>

\* os.path.splitext(filename)[0]: the name up to its last dot (a leading
\* dot does not start an extension).
SplitextStem(filename) ==
    LET dots == {i \in 2..Len(filename) : filename[i] = "."}
    IN  IF dots = {} THEN filename
        ELSE Take(filename, (CHOOSE i \in dots : \A j \in dots : i >= j) - 1)

SplitextExt(filename) == Drop(filename, Len(SplitextStem(filename)))

\* result['public_id'] of an upload with folder="wardrobe", public_id=stem.
PublicIdOf(filename) == Folder \o <<"/">> \o SplitextStem(filename)

\* result['secure_url']: the delivery URL of that asset.
SecureUrlOf(filename) ==
    <<"https:", "/", "/", "x", "/">> \o PublicIdOf(filename) \o SplitextExt(filename)

\* upload_to_cloudinary(file_bytes, filename); outcome is the store's answer.
\* isNone: the helper returned (None, None).
upload_to_cloudinary(as, filename, outcome) ==
    IF outcome = "ok"
    THEN [image_url |-> SecureUrlOf(filename), public_id |-> PublicIdOf(filename),
          isNone |-> FALSE, assets |-> as \cup {PublicIdOf(filename)}, errors |-> 0]
    ELSE [image_url |-> <<>>, public_id |-> <<>>,
          isNone |-> TRUE, assets |-> as, errors |-> 1]

\* The try/except around cloudinary.uploader.destroy(public_id) in delete_item:
\* the call is made once; an exception becomes a warning and does not propagate.
TryDestroyUncaught(as, public_id, outcome) ==
    [assets |-> IF outcome = "ok" THEN as \ {public_id.s} ELSE as,
     calls |-> <<public_id>>,
     warnings |-> 0,
     propagated |-> outcome # "ok"]

TryDestroy(as, public_id, outcome) ==
    [assets |-> IF outcome = "ok" THEN as \ {public_id.s} ELSE as,
     calls |-> <<public_id>>,
     warnings |-> IF outcome = "ok" THEN 0 ELSE 1,
     propagated |-> FALSE]

\* The condition under which delete_item acts: not df.empty and index in df.index
DeleteGuardOffByOne(df, index) == df.rows # <<>> /\ 0 <= index /\ index <= Len(df.rows)

DeleteGuard(df, index) == df.rows # <<>> /\ InIndex(df, index)

\* delete_item(index): what it leaves and what it did. df.at raises KeyError
\* for a label that is not in the index.
delete_item(f, as, index, outcome) ==
    LET untouched == [file |-> f, assets |-> as, calls |-> <<>>, warnings |-> 0,
                      raised |-> FALSE, wrote |-> FALSE]
        result(df) ==
            IF DeleteGuard(df, index)
            THEN IF ~InIndex(df, index)
                 THEN [untouched EXCEPT !.raised = TRUE]
                 ELSE LET public_id == df.rows[index + 1]["Public ID"]
                          d == TryDestroy(as, public_id, outcome)
                      IN  IF d.propagated
                          THEN [file |-> f, assets |-> d.assets, calls |-> d.calls,
                                warnings |-> d.warnings, raised |-> TRUE,
                                wrote |-> FALSE]
                          ELSE [file |-> to_csv(DropRow(df, index)),
                                assets |-> d.assets, calls |-> d.calls,
                                warnings |-> d.warnings, raised |-> FALSE,
                                wrote |-> TRUE]
            ELSE untouched
    IN  CHOOSE r \in {result(df) : df \in {load_metadata(f)}} : TRUE

-----------------------------------------------------------------------------
(* get_outfit_suggestions: the wardrobe serialization.                     *)

\* f"{row['Image URL']},{row['Category']},{row['Color']},{row['Season']}"
ClothesLine(row) ==
    PyStr(row["Image URL"]) \o <<",">> \o PyStr(row["Category"]) \o <<",">>
        \o PyStr(row["Color"]) \o <<",">> \o PyStr(row["Season"])

\* clothes_list = "\n".join(... for _, row in df.iterrows())
ClothesList(rows) == Join(<<"\n">>, Evaluated([i \in DOMAIN rows |-> ClothesLine(rows[i])]))

-----------------------------------------------------------------------------
(* get_outfit_suggestions: parsing the completion text.                    *)

\* The piece that stands for the code fence marker (three backticks).
Fence == <<"<fence>">>

\* raw.split(fence)[1]; if raw.startswith("json"): raw = raw[4:]; raw.strip()
FenceContent(raw) ==
    LET inner == Split(raw, Fence)[2]
    IN  Strip(IF StartsWith(inner, <<"json">>) THEN Drop(inner, 1) ELSE inner)

\* The position of the first piece at or after i that is not white space
\* (Len(s) + 1 when there is none).
SkipWs(s, i) ==
    LET stops == {j \in i..Len(s) : ~IsWs(s[j])}
    IN  IF stops = {} THEN Len(s) + 1 ELSE CHOOSE j \in stops : \A k \in stops : j <= k

\* Whether s has "]" at k with, after white space only, another "]".
ClosesAt(s, k) ==
    /\ k <= Len(s)
    /\ s[k] = "]"
    /\ SkipWs(s, k + 1) <= Len(s)
    /\ s[SkipWs(s, k + 1)] = "]"

\* A match whose inner part may not run over a closing bracket: it ends at the
\* first closing bracket after the two opening ones, if a closing pair starts
\* there.
MatchEndNoInnerBracket(s, i) ==
    IF s[i] # "[" THEN 0
    ELSE LET j == SkipWs(s, i + 1)
         IN  IF j > Len(s) \/ s[j] # "[" THEN 0
             ELSE LET ks == {k \in (j + 1)..Len(s) : s[k] = "]"}
                      k1 == CHOOSE k \in ks : \A m \in ks : k <= m
                  IN  IF ks = {} \/ ~ClosesAt(s, k1) THEN 0
                      ELSE SkipWs(s, k1 + 1)

\* The end of the match of the pattern (an opening bracket, white space, an
\* opening bracket, lazily anything, a closing bracket, white space, a closing
\* bracket) that starts at i, 0 when it does not match there: the lazy part
\* takes the fewest pieces, line breaks included, before a closing pair.
MatchEnd(s, i) ==
    IF s[i] # "[" THEN 0
    ELSE LET j == SkipWs(s, i + 1)
         IN  IF j > Len(s) \/ s[j] # "[" THEN 0
             ELSE LET ks == {k \in (j + 1)..Len(s) : ClosesAt(s, k)}
                  IN  IF ks = {} THEN 0
                      ELSE SkipWs(s, (CHOOSE k \in ks : \A m \in ks : k <= m) + 1)

\* re.search(pattern, raw, re.DOTALL): the leftmost match.
RegexSearch(s) ==
    LET starts == {i \in DOMAIN s : MatchEnd(s, i) # 0}
    IN  IF starts = {} THEN [found |-> FALSE, group |-> <<>>]
        ELSE LET i == CHOOSE a \in starts : \A b \in starts : a <= b
             IN  [found |-> TRUE, group |-> SubSeq(s, i, MatchEnd(s, i))]

\* Decoded JSON values: a list, a str, an int, or one of null/true/false.
JArr(items) == [t |-> "arr", items |-> items, s |-> <<>>, n |-> 0]

JStr(str) == [t |-> "str", items |-> <<>>, s |-> str, n |-> 0]

JNum(num) == [t |-> "num", items |-> <<>>, s |-> <<>>, n |-> num]

JLit(name) == [t |-> "lit", items |-> <<>>, s |-> <<name>>, n |-> 0]

JFail == [ok |-> FALSE, val |-> JLit("none"), next |-> 0]

JOk(val, next) == [ok |-> TRUE, val |-> val, next |-> next]

\* A string: from the quote at i to the next quote; a raw line break or tab
\* inside it is an error (the alphabet has no backslash).
ParseString(s, i) ==
    LET close == Find(s, <<"\"">>, i + 1)
    IN  IF close = 0 THEN JFail
        ELSE IF \E k \in (i + 1)..(close - 1) : s[k] \in {"\n", "\t", "\r"} THEN JFail
        ELSE JOk(JStr(SubSeq(s, i + 1, close - 1)), close + 1)

\* A number: 0, or a run of digits that does not start with 0.
ParseNumber(s, i) ==
    LET after == {j \in (i + 1)..(Len(s) + 1) : j > Len(s) \/ ~IsDigit(s[j])}
        end == IF s[i] = "0" THEN i + 1
               ELSE CHOOSE j \in after : \A k \in after : j <= k
    IN  JOk(JNum(IntValue(SubSeq(s, i, end - 1))), end)

RECURSIVE ParseValue(_, _), ParseElems(_, _, _)

\* The JSON value that starts at position i.
ParseValue(s, i) ==
    IF i > Len(s) THEN JFail
    ELSE IF s[i] = "["
         THEN LET j == SkipWs(s, i + 1)
              IN  IF j <= Len(s) /\ s[j] = "]" THEN JOk(JArr(<<>>), j + 1)
                  ELSE ParseElems(s, j, <<>>)
    ELSE IF s[i] = "\"" THEN ParseString(s, i)
    ELSE IF IsDigit(s[i]) THEN ParseNumber(s, i)
    ELSE IF s[i] \in {"null", "true", "false"} THEN JOk(JLit(s[i]), i + 1)
    ELSE JFail

\* The elements of an array from position i on, up to its "]".
ParseElems(s, i, acc) ==
    LET rest(v) ==
            IF ~v.ok THEN JFail
            ELSE LET j == SkipWs(s, v.next)
                 IN  IF j > Len(s) THEN JFail
                     ELSE IF s[j] = ","
                          THEN ParseElems(s, SkipWs(s, j + 1), Append(acc, v.val))
                     ELSE IF s[j] = "]" THEN JOk(JArr(Append(acc, v.val)), j + 1)
                     ELSE JFail
    IN  CHOOSE r \in {rest(v) : v \in {ParseValue(s, i)}} : TRUE

\* json.loads(raw): one value, white space around it, nothing else.
JsonLoads(s) ==
    LET done(v) == IF v.ok /\ SkipWs(s, v.next) > Len(s)
                   THEN [ok |-> TRUE, val |-> v.val]
                   ELSE [ok |-> FALSE, val |-> JLit("none")]
    IN  CHOOSE r \in {done(v) : v \in {ParseValue(s, SkipWs(s, 1))}} : TRUE

\* What the completion call gives: a text, no content (None), or an exception.
TextCompletion(text) == [kind |-> "text", text |-> text]

NoContent == [kind |-> "none", text |-> <<>>]

ApiError == [kind |-> "error", text |-> <<>>]

\* The candidate JSON text: the stripped content, the fence content when there
\* is a fence, and of that the regex match when there is one.
Candidate(text) ==
    LET raw0 == Strip(text)
        raw1 == IF Contains(raw0, Fence) THEN FenceContent(raw0) ELSE raw0
        match == RegexSearch(raw1)
    IN  IF match.found THEN match.group ELSE raw1

\* get_outfit_suggestions(user_prompt, df), from the completion on: the
\* returned value (<<>> for None), the failure reported and the text shown.
get_outfit_suggestions(rows, completion) ==
    LET base == [clothes_list |-> ClothesList(rows), returned |-> <<>>,
                 failure |-> "none", shown |-> <<>>, candidate |-> <<>>]
        parsed(raw) ==
            LET r == JsonLoads(raw)
            IN  IF r.ok
                THEN [base EXCEPT !.returned = <<r.val>>, !.candidate = raw]
                ELSE [base EXCEPT !.failure = "unparseable", !.shown = <<raw>>,
                                  !.candidate = raw]
    IN  IF completion.kind # "text"
        THEN [base EXCEPT !.failure = "request_failed"]
        ELSE CHOOSE r \in {parsed(raw) : raw \in {Candidate(completion.text)}} : TRUE

-----------------------------------------------------------------------------
(* The inputs the model offers.                                            *)

FileNames == { <<"a", ".", "png">>, <<"b", ".", "png">> }

\* No file chosen in the uploader (uploaded_image is None).
NoImage == <<>>

Categories == { <<"Shirts">> }

\* 'Blue' from the select box; with 'Other' the text input gives any text:
\* a number, nothing at all, a text with a comma.
Colors == { <<"Blue">>, <<"7">>, <<>>, <<"a", ",", "b">> }

Seasons == { <<"Summer">> }

Outcomes == {"ok", "raise"}

Q == "\""

\* [["a","b"],["c"]]
JsonTwoOutfits ==
    <<"[", "[", Q, "a", Q, ",", Q, "b", Q, "]", ",", "[", Q, "c", Q, "]", "]">>

\* The same outfits, pretty-printed over several lines.
JsonTwoOutfitsPretty ==
    <<"[", "\n", " ", "[", Q, "a", Q, ",", " ", Q, "b", Q, "]", ",", "\n",
      " ", "[", Q, "c", Q, "]", "\n", "]">>

\* [["a"],["b"],["c"]]
JsonThreeOutfits ==
    <<"[", "[", Q, "a", Q, "]", ",", "[", Q, "b", Q, "]", ",",
      "[", Q, "c", Q, "]", "]">>

MultiOutfitJsons == {JsonTwoOutfits, JsonTwoOutfitsPretty, JsonThreeOutfits}

\* "Sorry, I can't help with that."
SorryText == <<"Sorry", ",", " ", "I", " ", "can't", " ", "help", " ", "with",
               " ", "that", ".">>

\* Commentary around the JSON: none, plain prose, prose that shows the
\* expected shape in brackets, a trailing note in a fence of its own.
PlainPrefixes == { <<>>, <<"Here", " ", "you", " ", "go", ":", "\n">> }

PlainSuffixes == { <<>>, <<"\n", "Enjoy", "!">>, <<" ", "(", "see", " ", "]", "]", ")">> }

BracketPrefix == <<"As", " ", "[", "[", "...", "]", "]", ":", " ">>

FencedSuffix == <<"\n">> \o Fence \o <<"note">> \o Fence

Fencings == {"none", "bare", "json"}

PlainWrappers ==
    [pre : PlainPrefixes, fence : Fencings, suf : PlainSuffixes]

AllWrappers ==
    PlainWrappers
        \cup [pre : {BracketPrefix}, fence : Fencings, suf : {<<>>}]
        \cup [pre : {<<>>}, fence : Fencings, suf : {FencedSuffix}]

\* The completion text: json wrapped the way w says.
Wrap(w, json) ==
    w.pre
        \o (IF w.fence = "none" THEN json
            ELSE Fence \o (IF w.fence = "json" THEN <<"json">> ELSE <<>>)
                     \o <<"\n">> \o json \o <<"\n">> \o Fence)
        \o w.suf

GenAlphabet == {"[", "]", ",", Q, "a", "1", " "}

\* Every text over GenAlphabet of at most MaxGenLen pieces.
GeneratedTexts == UNION {[1..n -> GenAlphabet] : n \in 0..MaxGenLen}

CuratedTexts ==
    {Wrap(w, json) : w \in AllWrappers, json \in MultiOutfitJsons}
        \cup { SorryText,
               <<"4", "2">>,
               <<"null">>,
               <<"[", "[", "1", ",", "2", "]", "]">>,
               <<"[", "[", Q, "a", Q, "]", "]">>,
               <<"[", "[", Q, "a", Q, "]", ",", "1", "]">>,
               <<" ", "[", "[", Q, "a", Q, "]", " ", "]", "\n">>,
               <<"[", "[", Q, "a", Q, ",", "]", "]">>,
               Fence \o <<"json">> \o SorryText \o Fence }

Responses == GeneratedTexts \cup CuratedTexts

\* The completions offered next to uploads and deletes.
FewCompletions == {TextCompletion(JsonTwoOutfits), TextCompletion(SorryText), ApiError}

AllCompletions == {TextCompletion(t) : t \in Responses} \cup {NoContent, ApiError}

Sessions == {1, 2}

-----------------------------------------------------------------------------
(* State.  file: the metadata CSV.  assets: the public ids the asset store *)
(* holds.  snapshot[s]: the closet grid session s has on screen (its       *)
(* delete buttons are keyed by the row positions of that load).  last: a   *)
(* record of what the last handler did.                                    *)

NoOp ==
    [op |-> "none", session |-> 0, index |-> 0, outcome |-> "none",
     preFile |-> NoFile, pre |-> <<>>,
     calls |-> <<>>, warnings |-> 0, errors |-> 0, raised |-> FALSE,
     saved |-> FALSE, wrote |-> FALSE, item |-> <<>>, uploadFailed |-> FALSE,
     clicked |-> <<>>, removed |-> <<>>,
     called |-> FALSE, completion |-> "none", response |-> <<>>,
     candidate |-> <<>>, clothes_list |-> <<>>, returned |-> <<>>,
     failure |-> "none", shown |-> <<>>]

NotShown == [shown |-> FALSE, rows |-> <<>>]

Init ==
    /\ file = NoFile
    /\ assets = {}
    /\ snapshot = [s \in Sessions |-> NotShown]
    /\ last = NoOp

\* if image_url: (None and '' are falsy)
UploadGuardAlways(res) == TRUE

UploadGuard(res) == ~res.isNone /\ res.image_url # <<>>

\* The 'Upload to Wardrobe' button of the Add New Items page, in session s.
UploadClick(s, fname, category, color, season, outcome) ==
    /\ Len(file.lines) < MaxRows
    /\ snapshot' = [snapshot EXCEPT ![s] = NotShown]
    /\ \E pre \in {load_metadata(file).rows} :
          IF fname = NoImage
          THEN /\ UNCHANGED <<file, assets>>
               /\ last' = [NoOp EXCEPT !.op = "upload", !.session = s,
                             !.preFile = file, !.pre = pre, !.warnings = 1]
          ELSE \E res \in {upload_to_cloudinary(assets, fname, outcome)} :
                  /\ assets' = res.assets
                  /\ IF UploadGuard(res)
                     THEN file' = save_metadata(file, res.image_url, res.public_id,
                                                category, color, season)
                     ELSE file' = file
                  /\ last' = [NoOp EXCEPT !.op = "upload", !.session = s,
                                !.outcome = outcome, !.preFile = file,
                                !.pre = pre, !.errors = res.errors,
                                !.saved = UploadGuard(res),
                                !.wrote = UploadGuard(res),
                                !.uploadFailed = res.isNone,
                                !.item = IF UploadGuard(res)
                                         THEN <<NewEntry(res.image_url, res.public_id,
                                                         category, color, season)>>
                                         ELSE <<>>]

\* A call delete_item(index) with any position.
DeleteItem(index, outcome) ==
    \E df \in {load_metadata(file)} :
    \E r \in {delete_item(file, assets, index, outcome)} :
        /\ file' = r.file
        /\ assets' = r.assets
        /\ UNCHANGED snapshot
        /\ last' = [NoOp EXCEPT !.op = "delete", !.index = index,
                      !.outcome = outcome, !.preFile = file, !.pre = df.rows,
                      !.calls = r.calls, !.warnings = r.warnings,
                      !.raised = r.raised, !.wrote = r.wrote,
                      !.removed = IF r.wrote THEN <<df.rows[index + 1]>> ELSE <<>>]

\* The 'Get Suggestions' button with an occasion typed in, in session s: an
\* empty closet is reported without calling get_outfit_suggestions.
SuggestClick(s, completion) ==
    /\ UNCHANGED <<file, assets>>
    /\ snapshot' = [snapshot EXCEPT ![s] = NotShown]
    /\ \E df \in {load_metadata(file)} :
          IF df.rows = <<>>
          THEN last' = [NoOp EXCEPT !.op = "suggest", !.session = s,
                          !.preFile = file, !.pre = df.rows]
          ELSE \E r \in {get_outfit_suggestions(df.rows, completion)} :
                  last' = [NoOp EXCEPT !.op = "suggest", !.session = s,
                             !.preFile = file, !.pre = df.rows, !.called = TRUE,
                             !.completion = completion.kind,
                             !.response = completion.text,
                             !.candidate = r.candidate,
                             !.clothes_list = r.clothes_list,
                             !.returned = r.returned,
                             !.failure = r.failure,
                             !.shown = r.shown,
                             !.errors = IF r.failure = "none" THEN 0 ELSE 1]

Next ==
    \/ \E fname \in FileNames \cup {NoImage}, category \in Categories,
          color \in Colors, season \in Seasons, outcome \in Outcomes :
          UploadClick(1, fname, category, color, season, outcome)
    \/ \E index \in -1..MaxRows, outcome \in Outcomes : DeleteItem(index, outcome)
    \/ \E completion \in FewCompletions : SuggestClick(1, completion)

Spec == Init /\ [][Next]_vars

\* The Your Closet page in session s with no filter chosen: the table is
\* loaded and one card with a delete button (key delete_<index>) is drawn per
\* row.
ViewCloset(s) ==
    /\ UNCHANGED <<file, assets>>
    /\ snapshot' = [snapshot EXCEPT ![s] = [shown |-> TRUE,
                                            rows |-> load_metadata(file).rows]]
    /\ last' = [NoOp EXCEPT !.op = "view", !.session = s, !.preFile = file]

\* A click on the delete button that session s shows at position index.  The
\* script runs again: it loads the table as it is now, the button with the
\* same key reports the click if this run draws it, and delete_item(index)
\* and a rerun follow.
DeleteClick(s, index, outcome) ==
    /\ snapshot[s].shown
    /\ 0 <= index
    /\ index < Len(snapshot[s].rows)
    /\ \E df \in {load_metadata(file)} :
          IF InIndex(df, index)
          THEN \E r \in {delete_item(file, assets, index, outcome)} :
                  /\ file' = r.file
                  /\ assets' = r.assets
                  /\ snapshot' = [snapshot EXCEPT ![s] =
                                    [shown |-> TRUE, rows |-> load_metadata(r.file).rows]]
                  /\ last' = [NoOp EXCEPT !.op = "click", !.session = s,
                                !.index = index, !.outcome = outcome,
                                !.preFile = file, !.pre = df.rows,
                                !.calls = r.calls, !.warnings = r.warnings,
                                !.raised = r.raised, !.wrote = r.wrote,
                                !.clicked = <<snapshot[s].rows[index + 1]>>,
                                !.removed = IF r.wrote THEN <<df.rows[index + 1]>>
                                            ELSE <<>>]
          ELSE /\ UNCHANGED <<file, assets>>
               /\ snapshot' = [snapshot EXCEPT ![s] = [shown |-> TRUE, rows |-> df.rows]]
               /\ last' = [NoOp EXCEPT !.op = "click", !.session = s,
                             !.index = index, !.preFile = file, !.pre = df.rows,
                             !.clicked = <<snapshot[s].rows[index + 1]>>]

\* Two browser sessions on the same metadata file, each with its own page.
SessionFileNames ==
    { <<"a", ".", "png">>, <<"b", ".", "png">>, <<"c", ".", "png">> }

NextSessions ==
    \/ \E s \in Sessions : ViewCloset(s)
    \/ \E s \in Sessions, index \in 0..(MaxRows - 1), outcome \in Outcomes :
          DeleteClick(s, index, outcome)
    \/ \E s \in Sessions, fname \in SessionFileNames :
          UploadClick(s, fname, <<"Shirts">>, <<"Blue">>, <<"Summer">>, "ok")

SpecSessions == Init /\ [][NextSessions]_vars

\* Uploads and deletes in which every call to the asset store succeeds.
NextStoreOk ==
    \/ \E fname \in FileNames, category \in Categories, color \in Colors,
          season \in Seasons :
          UploadClick(1, fname, category, color, season, "ok")
    \/ \E index \in -1..MaxRows : DeleteItem(index, "ok")

SpecStoreOk == Init /\ [][NextStoreOk]_vars

\* The suggestion engine alone, over every completion of the model, with a
\* closet of one item (left by an earlier upload).
OneItemFile ==
    save_metadata(NoFile, SecureUrlOf(<<"a", ".", "png">>),
                  PublicIdOf(<<"a", ".", "png">>), <<"Shirts">>, <<"Blue">>, <<"Summer">>)

InitSuggest ==
    /\ file = OneItemFile
    /\ assets = {PublicIdOf(<<"a", ".", "png">>)}
    /\ snapshot = [s \in Sessions |-> NotShown]
    /\ last = NoOp

\* One request per behaviour: a later click computes the same function of
\* its own completion.
NextSuggest ==
    /\ last.op = "none"
    /\ \E completion \in AllCompletions : SuggestClick(1, completion)

SpecSuggest == InitSuggest /\ [][NextSuggest]_vars

-----------------------------------------------------------------------------
(* Properties of the metadata store and the upload and delete handlers.    *)

\* The table a load_metadata() issued now returns.
Loaded == load_metadata(file).rows

\* A sequence without its element at 0-based position i.
RemoveAt(seq, i) == SubSeq(seq, 1, i) \o SubSeq(seq, i + 2, Len(seq))

PublicIds(rows) == [i \in DOMAIN rows |-> rows[i]["Public ID"]]

ValidDelete == last.op = "delete" /\ 0 <= last.index /\ last.index < Len(last.pre)

InvalidDelete == last.op = "delete" /\ ~(0 <= last.index /\ last.index < Len(last.pre))

\* C1: delete_item(i) at a valid position i of table T, followed by
\* load_metadata(), yields T with exactly the row at position i removed: the
\* other rows unchanged, in their order, at positions 0..len(T)-2.
C1_DeleteYieldsTableWithoutRow ==
    ValidDelete => Loaded = RemoveAt(last.pre, last.index)

\* C2: delete_item(i) at a position that is no row index of the table (negative,
\* or >= len(T), or any position of the empty table) does not raise, leaves the
\* persisted table unchanged and makes no asset-store delete call.
C2_OutOfRangeDeleteIsNoOp ==
    InvalidDelete =>
        /\ ~last.raised
        /\ ~last.wrote
        /\ file = last.preFile
        /\ last.calls = <<>>

\* A delete at the position just past the last row of a table that has rows.
C2_Witness ==
    /\ InvalidDelete
    /\ last.pre # <<>>
    /\ last.index = Len(last.pre)
    /\ file.exists

\* C3: save_metadata(item) followed by load_metadata() returns the former table
\* with item as its last row, each of the five fields equal to the string
\* that was passed in.
C3_AppendRoundTrip ==
    (last.op = "upload" /\ last.saved) => Loaded = Append(last.pre, last.item[1])

\* C4: no two rows of the metadata table have the same Public ID.
C4_PublicIdsUnique ==
    \A i, j \in DOMAIN Loaded :
        i # j => Loaded[i]["Public ID"] # Loaded[j]["Public ID"]

\* C5: delete_item(i) at a valid position calls the asset-store delete exactly
\* once, with the Public ID of row i, and removes that row and persists the
\* table whether the call succeeds or raises; a failure is one warning, is not
\* retried and does not abort the removal.
C5_DeleteDestroysOnceAndRemovesRow ==
    ValidDelete =>
        /\ last.calls = <<last.pre[last.index + 1]["Public ID"]>>
        /\ ~last.raised
        /\ last.wrote
        /\ file.exists
        /\ Len(file.lines) = Len(last.pre) - 1
        /\ PublicIds(Loaded) = RemoveAt(PublicIds(last.pre), last.index)
        /\ last.warnings = (IF last.outcome = "raise" THEN 1 ELSE 0)

\* The asset-store delete raised during a valid delete of a two-row table.
C5_Witness ==
    /\ ValidDelete
    /\ last.outcome = "raise"
    /\ Len(last.pre) = 2
    /\ last.index = 0

\* C6: when the asset-store upload fails, no metadata row is created:
\* save_metadata is not called and the persisted table is as before.
C6_FailedUploadCreatesNoRow ==
    (last.op = "upload" /\ last.uploadFailed) =>
        /\ ~last.saved
        /\ ~last.wrote
        /\ file = last.preFile

\* A failed upload in front of a table that already has a row.
C6_Witness ==
    /\ last.op = "upload"
    /\ last.uploadFailed
    /\ last.errors = 1
    /\ last.pre # <<>>

-----------------------------------------------------------------------------
(* Properties of get_outfit_suggestions.                                   *)

\* Whether text is JSON for an array of arrays of strings.
IsOutfitList(text) ==
    LET r == JsonLoads(text)
    IN  /\ r.ok
        /\ r.val.t = "arr"
        /\ \A i \in DOMAIN r.val.items :
              /\ r.val.items[i].t = "arr"
              /\ \A j \in DOMAIN r.val.items[i].items :
                    r.val.items[i].items[j].t = "str"

\* C7: a completion text that, after fence stripping and extraction of the
\* array-of-arrays substring, is not a JSON array of arrays of strings makes
\* get_outfit_suggestions return no outfits and report the 'unparseable AI
\* response' failure, not a decoded value and not the request failure.
C7_NonOutfitTextIsUnparseable ==
    (last.op = "suggest" /\ last.completion = "text" /\ ~IsOutfitList(last.candidate))
        => (last.failure = "unparseable" /\ last.returned = <<>>)

\* The decoded [["a","b"],["c"]] and [["a"],["b"],["c"]].
TwoOutfits ==
    JArr(<<JArr(<<JStr(<<"a">>), JStr(<<"b">>)>>), JArr(<<JStr(<<"c">>)>>)>>)

ThreeOutfits ==
    JArr(<<JArr(<<JStr(<<"a">>)>>), JArr(<<JStr(<<"b">>)>>), JArr(<<JStr(<<"c">>)>>)>>)

Decoded(json) == IF json = JsonThreeOutfits THEN ThreeOutfits ELSE TwoOutfits

\* The last request returned the outfits of json for the text Wrap(w, json).
ReturnsOutfitsOf(w, json) ==
    (last.op = "suggest" /\ last.completion = "text" /\ last.response = Wrap(w, json))
        => (last.failure = "none" /\ last.returned = <<Decoded(json)>>)

C9_OneLineOfFourFieldsPerRow ==
    (last.op = "suggest" /\ last.called) =>
        LET lines == Split(last.clothes_list, <<"\n">>)
        IN  /\ Len(lines) = Len(last.pre)
            /\ \A k \in DOMAIN lines :
                  Split(lines[k], <<",">>) =
                      << PyStr(last.pre[k]["Image URL"]), PyStr(last.pre[k]["Category"]),
                         PyStr(last.pre[k]["Color"]), PyStr(last.pre[k]["Season"]) >>

-----------------------------------------------------------------------------
(* Properties of the closet page across sessions.                          *)

\* C10: the row a click on a delete button removes is the item whose button
\* was clicked, also when another session has appended to or deleted from the
\* metadata file since the page was drawn.
C10_ClickRemovesClickedItem ==
    (last.op = "click" /\ last.removed # <<>>) => last.removed = last.clicked

\* C11: when every upload and every destroy call succeeds, each row of the
\* metadata table names, in its Public ID, an asset that is in the asset
\* store: no delete destroys the asset a remaining row refers to.
C11_RemainingRowsHaveAssets ==
    \A i \in DOMAIN Loaded : Loaded[i]["Public ID"].s \in assets

====
